---------------------------- MODULE Spec2Model ----------------------------
(***************************************************************************)
(* Petri net analyzer (petri_net_analyzer.py): the net model, the explicit *)
(* BFS reachability, the symbolic (BDD) reachability fixpoint, the BDD     *)
(* membership oracle and the two ILP clients, run in the order of main().  *)
(*                                                                         *)
(* Places and transitions are named by their declaration index (1..n).     *)
(* A marking is the tuple of token counts, a function on place_ids.  A BDD *)
(* over the current variables x_i is the set of assignments                *)
(* [place_ids -> BOOLEAN] that satisfy it; a BDD over current and next     *)
(* variables is a set of pairs <<x, x_next>> of such assignments.          *)
(***************************************************************************)
EXTENDS Integers, Sequences, FiniteSets, TLC

\* Bounds of the model: places plus transitions of the net, the sum of its
\* arc weights, and the tokens a place may hold before the BFS is cut off.
MaxNodes == 4
MaxArcWeight == 4
MaxTokens == 2

\* Objective weights offered to optimize_reachable_markings.
ObjectiveValues == {-1, 0, 1, 2}

VARIABLES
    place_ids,        \* PetriNet.place_ids, as the index set 1..P
    transition_ids,   \* PetriNet.transition_ids, as the index set 1..T
    pre_matrix,       \* PetriNet.pre_matrix[t][p]
    post_matrix,      \* PetriNet.post_matrix[t][p]
    initial_marking,  \* PetriNet.initial_marking
    errors,           \* verify_consistency: the kinds of error it collected
    BDD_AVAILABLE,    \* module flag: `from dd import autoref` succeeded
    ILP_AVAILABLE,    \* module flag: `import pulp` succeeded
    pc,               \* position of main()
    reachable,        \* explicit_reachability: the set of discovered markings
    queue,            \* explicit_reachability: the FIFO frontier
    reach_bdd,        \* symbolic_reachability_bdd: reach_bdd
    prev_size,        \* symbolic_reachability_bdd: prev_size
    iteration,        \* symbolic_reachability_bdd: iteration
    result            \* what the latest ILP client returned

net == <<place_ids, transition_ids, pre_matrix, post_matrix, initial_marking>>
vars == <<place_ids, transition_ids, pre_matrix, post_matrix, initial_marking,
          errors, BDD_AVAILABLE, ILP_AVAILABLE, pc, reachable, queue, reach_bdd, prev_size, iteration, result>>

NumPlaces == Cardinality(place_ids)
NumTrans == Cardinality(transition_ids)

RECURSIVE Pow2(_)
Pow2(n) == IF n = 0 THEN 1 ELSE 2 * Pow2(n - 1)

\* The 0/1 markings {0,1}^P and the assignments to the current variables.
Cube == [place_ids -> {0, 1}]
Assignments == [place_ids -> BOOLEAN]

\* The weight vectors of length k whose entries sum to at most n: the entries
\* of the pre and post matrices that build_matrices fills from the arcs.
RECURSIVE WeightVectors(_, _)
WeightVectors(k, n) ==
    IF k = 0 THEN {<< >>}
    ELSE UNION {{Append(v, w) : v \in WeightVectors(k - 1, n - w)} : w \in 0..n}

\* The matrix [t][p] stored in v from position offset + 1 on, row by row.
MatrixOf(v, offset, places, transitions) ==
    [t \in transitions |->
        [p \in places |-> v[offset + (t - 1) * Cardinality(places) + p]]]

-----------------------------------------------------------------------------
(* Net model: PetriNet *)

\* is_transition_enabled with the first pre-place deciding (return True in the loop).
is_transition_enabled_first(marking, tid) ==
    \/ \A p \in place_ids : pre_matrix[tid][p] = 0
    \/ \E p \in place_ids :
          /\ pre_matrix[tid][p] > 0
          /\ \A q \in place_ids : q < p => pre_matrix[tid][q] = 0
          /\ marking[p] >= pre_matrix[tid][p]

\* is_transition_enabled that asks for a token, not for the arc weight.
is_transition_enabled_any_token(marking, tid) ==
    \A p \in place_ids : pre_matrix[tid][p] > 0 => ~(marking[p] < 1)

is_transition_enabled(marking, tid) ==
    /\ tid \in DOMAIN pre_matrix
    /\ \A p \in place_ids :
          pre_matrix[tid][p] > 0 => ~(marking[p] < pre_matrix[tid][p])

\* fire_transition without the subtraction of the pre-arc weights.
fire_transition_nosub(marking, tid) ==
    [p \in place_ids |->
        marking[p] + (IF post_matrix[tid][p] > 0 THEN post_matrix[tid][p] ELSE 0)]

fire_transition(marking, tid) ==
    [p \in place_ids |->
        marking[p]
        - (IF tid \in DOMAIN pre_matrix /\ pre_matrix[tid][p] > 0
             THEN pre_matrix[tid][p] ELSE 0)
        + (IF tid \in DOMAIN post_matrix /\ post_matrix[tid][p] > 0
             THEN post_matrix[tid][p] ELSE 0)]

is_dead_marking(marking) ==
    \A tid \in transition_ids : ~is_transition_enabled(marking, tid)

-----------------------------------------------------------------------------
(* explicit_reachability *)

\* The for loop over the transitions with a break after the first enabled one.
RECURSIVE bfs_for_break(_, _, _, _)
bfs_for_break(tid, current_marking, reach, q) ==
    IF tid > NumTrans THEN <<reach, q>>
    ELSE IF is_transition_enabled(current_marking, tid)
         THEN LET new_marking == fire_transition(current_marking, tid)
              IN  IF new_marking \notin reach
                    THEN <<reach \cup {new_marking}, Append(q, new_marking)>>
                    ELSE <<reach, q>>
         ELSE bfs_for_break(tid + 1, current_marking, reach, q)

\* The for loop of one BFS iteration: transitions in declaration order from tid on.
RECURSIVE bfs_for(_, _, _, _)
bfs_for(tid, current_marking, reach, q) ==
    IF tid > NumTrans THEN <<reach, q>>
    ELSE IF is_transition_enabled(current_marking, tid)
         THEN LET new_marking == fire_transition(current_marking, tid)
              IN  IF new_marking \notin reach
                    THEN bfs_for(tid + 1, current_marking,
                                 reach \cup {new_marking}, Append(q, new_marking))
                    ELSE bfs_for(tid + 1, current_marking, reach, q)
         ELSE bfs_for(tid + 1, current_marking, reach, q)

WithinTokens(S) == \A m \in S : \A p \in place_ids : m[p] <= MaxTokens

\* explicit_step that keeps the marking it dequeued as the net's marking.
explicit_step_moves_net ==
    /\ pc = "explicit"
    /\ queue # << >>
    /\ LET out == bfs_for(1, Head(queue), reachable, Tail(queue))
       IN  /\ WithinTokens(out[1])
           /\ reachable' = out[1]
           /\ queue' = out[2]
    /\ initial_marking' = Head(queue)
    /\ UNCHANGED <<place_ids, transition_ids, pre_matrix, post_matrix, errors,
                   BDD_AVAILABLE, ILP_AVAILABLE,
                   pc, reach_bdd, prev_size, iteration, result>>

\* One iteration of `while queue:` (popleft, then the for loop).
explicit_step ==
    /\ pc = "explicit"
    /\ queue # << >>
    /\ LET out == bfs_for(1, Head(queue), reachable, Tail(queue))
       IN  /\ WithinTokens(out[1])
           /\ reachable' = out[1]
           /\ queue' = out[2]
    /\ UNCHANGED <<net, errors, BDD_AVAILABLE, ILP_AVAILABLE, pc, reach_bdd, prev_size, iteration, result>>

\* The queue drained: explicit_reachability returns, main() goes on to Task 3.
explicit_return ==
    /\ pc = "explicit"
    /\ queue = << >>
    /\ pc' = "symbolic_init"
    /\ UNCHANGED <<net, errors, BDD_AVAILABLE, ILP_AVAILABLE, reachable, queue, reach_bdd, prev_size, iteration, result>>

-----------------------------------------------------------------------------
(* symbolic_reachability_bdd *)

ToAssignment(marking) == [p \in place_ids |-> marking[p] # 0]
ToMarking(a) == [p \in place_ids |-> IF a[p] THEN 1 ELSE 0]
Enumerate(bdd) == {ToMarking(a) : a \in bdd}

\* build_initial_marking_bdd with the polarity of the literals swapped.
build_initial_marking_bdd_swapped ==
    {x \in Assignments : \A p \in place_ids : x[p] = (initial_marking[p] # 1)}

build_initial_marking_bdd ==
    {x \in Assignments : \A p \in place_ids : x[p] = (initial_marking[p] = 1)}

\* The per-transition relation without the clause that keeps an untouched
\* place as it is.
transition_relation_of_noframe(tid) ==
    {xx \in Assignments \X Assignments :
        LET x == xx[1]
            xn == xx[2]
        IN  /\ \A p \in place_ids : pre_matrix[tid][p] > 0 => x[p]
            /\ \A p \in place_ids :
                 LET pre_weight == pre_matrix[tid][p]
                     post_weight == post_matrix[tid][p]
                 IN  IF pre_weight > 0 /\ post_weight = 0 THEN x[p] /\ ~xn[p]
                     ELSE IF pre_weight = 0 /\ post_weight > 0 THEN ~x[p] /\ xn[p]
                     ELSE IF pre_weight > 0 /\ post_weight > 0 THEN x[p] /\ xn[p]
                     ELSE TRUE}

\* The per-transition relation in which a place that is both input and output
\* is emptied, as an input-only place is.
transition_relation_of_consume(tid) ==
    {xx \in Assignments \X Assignments :
        LET x == xx[1]
            xn == xx[2]
        IN  /\ \A p \in place_ids : pre_matrix[tid][p] > 0 => x[p]
            /\ \A p \in place_ids :
                 LET pre_weight == pre_matrix[tid][p]
                     post_weight == post_matrix[tid][p]
                 IN  IF pre_weight > 0 THEN x[p] /\ ~xn[p]
                     ELSE IF post_weight > 0 THEN ~x[p] /\ xn[p]
                     ELSE (x[p] /\ xn[p]) \/ (~x[p] /\ ~xn[p])}

\* The per-transition relation: enabled AND update.
transition_relation_of(tid) ==
    {xx \in Assignments \X Assignments :
        LET x == xx[1]
            xn == xx[2]
        IN  /\ \A p \in place_ids : pre_matrix[tid][p] > 0 => x[p]
            /\ \A p \in place_ids :
                 LET pre_weight == pre_matrix[tid][p]
                     post_weight == post_matrix[tid][p]
                 IN  IF pre_weight > 0 /\ post_weight = 0 THEN x[p] /\ ~xn[p]
                     ELSE IF pre_weight = 0 /\ post_weight > 0 THEN ~x[p] /\ xn[p]
                     ELSE IF pre_weight > 0 /\ post_weight > 0 THEN x[p] /\ xn[p]
                     ELSE (x[p] /\ xn[p]) \/ (~x[p] /\ ~xn[p])}

build_transition_relation_bdd ==
    UNION {transition_relation_of(tid) : tid \in transition_ids}

\* A count that does not see the assignments added to the BDD.
count_bdd_assignments_stuck(bdd) == 0

count_bdd_assignments(bdd) == Cardinality(bdd)

\* exist(current_vars, reach AND R), with the next variables renamed to current.
image_renamed(bdd) ==
    {xx[2] : xx \in {yy \in build_transition_relation_bdd : yy[1] \in bdd}}

\* Without dd the function returns None at once.  Otherwise: variables
\* declared, init_bdd and the relation built.  With no place, clauses[0]
\* raises IndexError and main() aborts.
symbolic_init ==
    /\ pc = "symbolic_init"
    /\ IF ~BDD_AVAILABLE
         THEN /\ pc' = "deadlock"
              /\ UNCHANGED <<reach_bdd, prev_size, iteration>>
         ELSE IF place_ids = {}
         THEN /\ pc' = "crashed"
              /\ UNCHANGED <<reach_bdd, prev_size, iteration>>
         ELSE /\ pc' = "symbolic"
              /\ reach_bdd' = build_initial_marking_bdd
              /\ prev_size' = 0
              /\ iteration' = 0
    /\ UNCHANGED <<net, errors, BDD_AVAILABLE, ILP_AVAILABLE, reachable, queue, result>>

\* symbolic_step that keeps the image alone as the new reach set.
symbolic_step_frontier ==
    /\ pc = "symbolic"
    /\ iteration' = iteration + 1
    /\ LET new_states == image_renamed(reach_bdd) \ reach_bdd
           updated == image_renamed(reach_bdd)
           count == count_bdd_assignments(updated)
       IN  IF new_states = {}
             THEN /\ pc' = "deadlock"
                  /\ UNCHANGED <<reach_bdd, prev_size>>
             ELSE /\ reach_bdd' = updated
                  /\ IF count = prev_size
                       THEN pc' = "deadlock" /\ UNCHANGED prev_size
                       ELSE pc' = "symbolic" /\ prev_size' = count
    /\ UNCHANGED <<net, errors, BDD_AVAILABLE, ILP_AVAILABLE, reachable, queue, result>>

\* One iteration of the `while True:` fixpoint loop.
symbolic_step ==
    /\ pc = "symbolic"
    /\ iteration' = iteration + 1
    /\ LET new_states == image_renamed(reach_bdd) \ reach_bdd
           updated == reach_bdd \cup image_renamed(reach_bdd)
           count == count_bdd_assignments(updated)
       IN  IF new_states = {}
             THEN /\ pc' = "deadlock"
                  /\ UNCHANGED <<reach_bdd, prev_size>>
             ELSE /\ reach_bdd' = updated
                  /\ IF count = prev_size
                       THEN pc' = "deadlock" /\ UNCHANGED prev_size
                       ELSE pc' = "symbolic" /\ prev_size' = count
    /\ UNCHANGED <<net, errors, BDD_AVAILABLE, ILP_AVAILABLE, reachable, queue, result>>

-----------------------------------------------------------------------------
(* Reachability oracle and the ILP clients *)

is_marking_reachable_bdd(bdd, marking) == ToAssignment(marking) \in bdd

NoMarking == << >>
None == [fn |-> "none", weights |-> << >>, raised |-> FALSE, found |-> FALSE,
         marking |-> NoMarking, value |-> 0]

\* Feasible region of the deadlock ILP: one constraint per transition that
\* has a pre-place.
DeadlockFeasible ==
    {M \in Cube :
        \A tid \in transition_ids :
            LET pre_places == {p \in place_ids : pre_matrix[tid][p] > 0}
            IN  pre_places # {} =>
                    Cardinality({p \in pre_places : M[p] = 0}) >= 1}

\* deadlock_detection that returns the candidate unverified when there is no BDD.
deadlock_detection_unverified ==
    /\ pc = "deadlock"
    /\ pc' = "optimize"
    /\ IF ~ILP_AVAILABLE \/ DeadlockFeasible = {}
         THEN result' = [None EXCEPT !.fn = "deadlock_detection"]
         ELSE \E marking \in DeadlockFeasible :
                result' = IF ~BDD_AVAILABLE \/ is_marking_reachable_bdd(reach_bdd, marking)
                            THEN [fn |-> "deadlock_detection", weights |-> << >>,
                                  raised |-> FALSE,
                                  found |-> TRUE, marking |-> marking, value |-> 0]
                            ELSE [None EXCEPT !.fn = "deadlock_detection"]
    /\ UNCHANGED <<net, errors, BDD_AVAILABLE, ILP_AVAILABLE, reachable, queue,
                   reach_bdd, prev_size, iteration>>

\* deadlock_detection -> deadlock_detection_ilp: None without pulp; one solve;
\* one oracle query when there is a BDD, None when there is not.
deadlock_detection ==
    /\ pc = "deadlock"
    /\ pc' = "optimize"
    /\ IF ~ILP_AVAILABLE \/ DeadlockFeasible = {}
         THEN result' = [None EXCEPT !.fn = "deadlock_detection"]
         ELSE \E marking \in DeadlockFeasible :
                result' = IF BDD_AVAILABLE /\ is_marking_reachable_bdd(reach_bdd, marking)
                            THEN [fn |-> "deadlock_detection", weights |-> << >>,
                                  raised |-> FALSE,
                                  found |-> TRUE, marking |-> marking, value |-> 0]
                            ELSE [None EXCEPT !.fn = "deadlock_detection"]
    /\ UNCHANGED <<net, errors, BDD_AVAILABLE, ILP_AVAILABLE, reachable, queue, reach_bdd, prev_size, iteration>>

RECURSIVE SumTo(_, _, _)
SumTo(n, c, m) == IF n = 0 THEN 0 ELSE c[n] * m[n] + SumTo(n - 1, c, m)
Objective(c, m) == SumTo(NumPlaces, c, m)

\* Optimal solutions of the optimization ILP: the maxima over the 0/1 cube.
OptimizeOptimal(c) ==
    {M \in Cube : \A N \in Cube : Objective(c, M) >= Objective(c, N)}

\* optimize_reachable_markings_ilp: None without pulp; one solve; one oracle
\* query when there is a BDD, None when there is not.
optimize_reachable_markings_ilp(objective_weights) ==
    /\ pc = "optimize"
    /\ pc' = "done"
    /\ IF ~ILP_AVAILABLE
         THEN result' = [None EXCEPT !.fn = "optimize_reachable_markings",
                                     !.weights = objective_weights]
         ELSE \E marking \in OptimizeOptimal(objective_weights) :
                result' = IF BDD_AVAILABLE /\ is_marking_reachable_bdd(reach_bdd, marking)
                            THEN [fn |-> "optimize_reachable_markings",
                                  weights |-> objective_weights, raised |-> FALSE,
                                  found |-> TRUE, marking |-> marking,
                                  value |-> Objective(objective_weights, marking)]
                            ELSE [None EXCEPT !.fn = "optimize_reachable_markings",
                                              !.weights = objective_weights]
    /\ UNCHANGED <<net, errors, BDD_AVAILABLE, ILP_AVAILABLE, reachable, queue, reach_bdd, prev_size, iteration>>

\* The weight vectors main() is given on the command line: every vector over
\* ObjectiveValues with one entry per place, and vectors of ones of every other
\* length up to one more than the net can have places.
WeightInputs ==
    [place_ids -> ObjectiveValues]
        \cup {[i \in 1..n |-> 1] : n \in (0..(MaxNodes + 1)) \ {NumPlaces}}

\* The ValueError of the length test: main() catches it, prints it and goes on
\* to its last lines.
raise_ValueError(objective_weights) ==
    /\ pc = "optimize"
    /\ pc' = "done"
    /\ result' = [None EXCEPT !.fn = "optimize_reachable_markings",
                              !.weights = objective_weights, !.raised = TRUE]
    /\ UNCHANGED <<net, errors, BDD_AVAILABLE, ILP_AVAILABLE, reachable, queue,
                   reach_bdd, prev_size, iteration>>

\* optimize_reachable_markings whose length test lets a longer vector pass.
optimize_reachable_markings_longer_passes(objective_weights) ==
    IF Len(objective_weights) < NumPlaces
      THEN raise_ValueError(objective_weights)
      ELSE optimize_reachable_markings_ilp(objective_weights)

\* optimize_reachable_markings: the length test, then
\* optimize_reachable_markings_ilp.
optimize_reachable_markings(objective_weights) ==
    IF Len(objective_weights) # NumPlaces
      THEN raise_ValueError(objective_weights)
      ELSE optimize_reachable_markings_ilp(objective_weights)

\* main() with objective weights on the command line.
optimize_given_weights ==
    \E objective_weights \in WeightInputs :
        optimize_reachable_markings(objective_weights)

\* main() with a vector of ones of any length on the command line.
optimize_given_ones ==
    \E n \in 0..(MaxNodes + 1) :
        optimize_reachable_markings([i \in 1..n |-> 1])

\* main() without objective weights: default_weights = [1] * len(place_ids).
optimize_default_weights ==
    optimize_reachable_markings([p \in place_ids |-> 1])

-----------------------------------------------------------------------------
(* The program *)

\* An arc of the PNML that is no place-transition or transition-place arc,
\* by the kinds of its source and target ("unknown": no declared node).
DefectiveArcs ==
    {a \in {"place", "transition", "unknown"} \X {"place", "transition", "unknown"} :
        a \notin {<<"place", "transition">>, <<"transition", "place">>}}

\* verify_consistency: the errors appended for the given arcs.  The two
\* duplicate-id tests compare a dict with the set of its own keys and never
\* append.  The function prints the errors and returns False; it never raises.
verify_consistency(arcs) ==
    {"invalid_endpoint" : a \in {b \in arcs : b[1] = "unknown" \/ b[2] = "unknown"}}
    \cup {"not_bipartite" :
            a \in {b \in arcs : b \in {<<"place", "place">>,
                                       <<"transition", "transition">>}}}

\* parse_pnml on a PNML holding the given defective arcs beside its
\* well-formed ones: build_matrices skips every arc that is no place-transition
\* or transition-place arc, and the result of verify_consistency is dropped.
parse_pnml(defective_arcs) ==
    /\ place_ids \in {1..n : n \in 0..MaxNodes}
    /\ transition_ids \in {1..n : n \in 0..(MaxNodes - NumPlaces)}
    /\ \A a \in defective_arcs : \A i \in {1, 2} :
          /\ a[i] = "place" => place_ids # {}
          /\ a[i] = "transition" => transition_ids # {}
    /\ \E v \in WeightVectors(2 * NumPlaces * NumTrans, MaxArcWeight) :
          /\ pre_matrix = MatrixOf(v, 0, place_ids, transition_ids)
          /\ post_matrix = MatrixOf(v, NumPlaces * NumTrans, place_ids, transition_ids)
    /\ initial_marking \in [place_ids -> {0, 1}]
    /\ errors = verify_consistency(defective_arcs)
    /\ pc = "explicit"
    /\ reachable = {initial_marking}
    /\ queue = <<initial_marking>>
    /\ reach_bdd = {}
    /\ prev_size = 0
    /\ iteration = 0
    /\ result = None

\* The imports at the head of the module set the two flags.
import_backends(bdd, ilp) ==
    /\ BDD_AVAILABLE = bdd
    /\ ILP_AVAILABLE = ilp

\* dd and pulp are installed and a well-formed PNML file has been parsed.
Init == import_backends(TRUE, TRUE) /\ parse_pnml({})

\* A well-formed PNML file has been parsed, pulp installed, with or without dd.
InitBddBackend ==
    \E bdd \in BOOLEAN : import_backends(bdd, TRUE) /\ parse_pnml({})

\* A well-formed PNML file has been parsed, with or without dd and pulp.
InitBackends ==
    \E bdd \in BOOLEAN : \E ilp \in BOOLEAN :
        import_backends(bdd, ilp) /\ parse_pnml({})

\* The PNML has no <net> element: parse_pnml raises ValueError, main() prints
\* the error and exits.
parse_pnml_raises ==
    /\ place_ids = {}
    /\ transition_ids = {}
    /\ pre_matrix = << >>
    /\ post_matrix = << >>
    /\ initial_marking = << >>
    /\ errors = {}
    /\ pc = "parse_error"
    /\ reachable = {}
    /\ queue = << >>
    /\ reach_bdd = {}
    /\ prev_size = 0
    /\ iteration = 0
    /\ result = None

\* A PNML file with one defective arc, or without a <net>, has been parsed.
InitDefective ==
    /\ import_backends(TRUE, TRUE)
    /\ \/ \E arc \in DefectiveArcs : parse_pnml({arc})
       \/ parse_pnml_raises

Next ==
    \/ explicit_step
    \/ explicit_return
    \/ symbolic_init
    \/ symbolic_step
    \/ deadlock_detection
    \/ optimize_given_weights

Spec == Init /\ [][Next]_vars

\* The two reachability engines alone (Tasks 2 and 3 of main()).
NextReach ==
    \/ explicit_step
    \/ explicit_return
    \/ symbolic_init
    \/ symbolic_step

SpecReach == Init /\ [][NextReach]_vars

\* main() on the defective PNML files.
SpecDefective == InitDefective /\ [][Next]_vars

\* main() run without objective weights.
NextDefault ==
    \/ explicit_step
    \/ explicit_return
    \/ symbolic_init
    \/ symbolic_step
    \/ deadlock_detection
    \/ optimize_default_weights

SpecDefault == Init /\ [][NextDefault]_vars

\* main() run with a vector of ones of any length as objective weights.
NextOnes ==
    \/ explicit_step
    \/ explicit_return
    \/ symbolic_init
    \/ symbolic_step
    \/ deadlock_detection
    \/ optimize_given_ones

SpecOnes == Init /\ [][NextOnes]_vars

\* main() run without objective weights, pulp installed, with or without dd.
SpecBddBackend == InitBddBackend /\ [][NextDefault]_vars

\* main() run without objective weights, with or without dd and pulp.
SpecBackends == InitBackends /\ [][NextDefault]_vars

\* explicit_reachability alone (Task 2).  It is sequential code: each of its
\* steps is taken.
NextExplicit ==
    \/ explicit_step
    \/ explicit_return

SpecExplicit == Init /\ [][NextExplicit]_vars

FairSpec ==
    /\ Init
    /\ [][NextExplicit]_vars
    /\ WF_vars(explicit_step)
    /\ WF_vars(explicit_return)

-----------------------------------------------------------------------------
(* The net semantics of the specification's glossary, independent of the   *)
(* code above: enabled, firing, dead marking, reachable set R(N).          *)

Enabled(m, t) == \A p \in place_ids : m[p] >= pre_matrix[t][p]
Fire(m, t) == [p \in place_ids |-> m[p] - pre_matrix[t][p] + post_matrix[t][p]]
Dead(m) == \A t \in transition_ids : ~Enabled(m, t)
PostImage(S) == {Fire(mt[1], mt[2]) :
                    mt \in {nu \in S \X transition_ids : Enabled(nu[1], nu[2])}}

\* Least set containing S and closed under firing; the iteration is cut as
\* soon as a marking leaves 0..MaxTokens, which it reports by containing it.
RECURSIVE Closure(_)
Closure(S) ==
    LET N == S \cup PostImage(S)
    IN  IF N = S \/ ~WithinTokens(N) THEN N ELSE Closure(N)

RN == Closure({initial_marking})
OneSafeNet == \A m \in RN : \A p \in place_ids : m[p] <= 1

AfterExplicit == pc # "explicit"
InSymbolic == pc \in {"symbolic", "deadlock", "optimize", "done"}
AfterSymbolic == pc \in {"deadlock", "optimize", "done"}

-----------------------------------------------------------------------------
(* Claims *)

\* C1: once symbolic_reachability_bdd has returned, the markings that satisfy
\* its BDD are exactly the markings explicit_reachability returned.
C1_BddEqualsBfs ==
    AfterSymbolic => Enumerate(reach_bdd) = reachable

\* C2: deadlock detection returns a marking if and only if the reachable set
\* R(N) contains a dead marking, whichever feasible candidate the solver picked.
C2_DeadlockIffDeadReachable ==
    (pc = "optimize" /\ result.fn = "deadlock_detection")
        => (result.found <=> \E m \in RN : Dead(m))

\* C3: optimization returns a pair (m*, v*) with m* reachable and
\* v* = c.m* = max{c.m : m in R(N)} (R(N) is never empty: it holds M0).
C3_OptimumReturned ==
    (pc = "done" /\ result.fn = "optimize_reachable_markings")
        => /\ result.found
           /\ result.marking \in RN
           /\ result.value = Objective(result.weights, result.marking)
           /\ \A m \in RN : Objective(result.weights, m) <= result.value

\* C4: for every marking m of {0,1}^P the oracle on the returned BDD answers
\* true if and only if m is in the reachable set R(N).
C4_OracleIffReachable ==
    AfterSymbolic =>
        \A m \in Cube : is_marking_reachable_bdd(reach_bdd, m) <=> m \in RN

\* C5: the initial marking is in the explicit set at every iteration of the BFS
\* and afterwards, and satisfies reach_bdd at every iteration of the fixpoint
\* loop and afterwards.
C5_InitialMarkingReachable ==
    /\ initial_marking \in reachable
    /\ InSymbolic => ToAssignment(initial_marking) \in reach_bdd

C5_Witness ==
    /\ AfterSymbolic
    /\ Cardinality(reachable) >= 3
    /\ Cardinality(reach_bdd) >= 3
    /\ initial_marking \in reachable
    /\ ToAssignment(initial_marking) \in reach_bdd

\* C6: when explicit_reachability has terminated, its set is closed under
\* firing: fire_transition(m, t) is in it for every m in it and enabled t.
C6_ClosedUnderFiring ==
    AfterExplicit =>
        \A m \in reachable : \A t \in transition_ids :
            is_transition_enabled(m, t) => fire_transition(m, t) \in reachable

C6_Witness ==
    /\ AfterExplicit
    /\ Cardinality(reachable) >= 3
    /\ \E m \in reachable : \E t \in transition_ids :
          /\ is_transition_enabled(m, t)
          /\ fire_transition(m, t) # m
          /\ fire_transition(m, t) \in reachable

\* C7: on termination the set of explicit_reachability is the least fixed
\* point of {M0} union post-image: it holds exactly the markings obtained from
\* M0 by firing enabled transitions, and no other marking.
C7_LeastFixedPoint ==
    AfterExplicit => reachable = RN

C7_Witness ==
    /\ AfterExplicit
    /\ Cardinality(reachable) >= 3
    /\ Cardinality(reachable) < Cardinality([place_ids -> 0..MaxTokens])
    /\ reachable = RN

\* C8: for a 1-safe net explicit_reachability terminates (the queue drains and
\* the function returns) and its set never holds more than 2^P markings.
C8_OneSafeTerminates ==
    /\ [](OneSafeNet => Cardinality(reachable) <= Pow2(NumPlaces))
    /\ (OneSafeNet ~> AfterExplicit)

C8_Witness ==
    /\ OneSafeNet
    /\ AfterExplicit
    /\ NumPlaces >= 2
    /\ Cardinality(reachable) = Pow2(NumPlaces)

\* C9: fire_transition never returns a marking with more than one token in a
\* place, for the markings and enabled transitions the BFS hands to it.
C9_FireKeepsOneSafe ==
    \A m \in reachable : \A t \in transition_ids :
        is_transition_enabled(m, t) =>
            \A p \in place_ids : fire_transition(m, t)[p] <= 1

\* C10: a transition with a marked post-only place produces no successor in
\* either engine, and the two engines have the same one-step successors of
\* every marking of {0,1}^P.
ExplicitSuccessors(m) ==
    {fire_transition(m, t) : t \in {u \in transition_ids : is_transition_enabled(m, u)}}
SymbolicSuccessors(m) ==
    {ToMarking(xx[2]) :
        xx \in {yy \in build_transition_relation_bdd : yy[1] = ToAssignment(m)}}
UnsafeFiring(m, t) ==
    \E p \in place_ids : pre_matrix[t][p] = 0 /\ post_matrix[t][p] > 0 /\ m[p] >= 1
C10_EnginesAgreeOnUnsafeFirings ==
    \A m \in Cube :
        /\ \A t \in transition_ids :
              UnsafeFiring(m, t) =>
                  /\ ~is_transition_enabled(m, t)
                  /\ ~\E xx \in transition_relation_of(t) : xx[1] = ToAssignment(m)
        /\ ExplicitSuccessors(m) = SymbolicSuccessors(m)

\* The markings the claims about the net model range over: every 0/1 marking
\* and every marking the BFS has discovered.
Markings == Cube \cup reachable

\* C11: is_transition_enabled(m, t) is true if and only if m[p] >= pre[t][p]
\* for every place p; a transition with no pre-arc is enabled at every marking.
C11_EnabledIffEnoughTokens ==
    \A m \in Markings : \A t \in transition_ids :
        /\ is_transition_enabled(m, t) <=> Enabled(m, t)
        /\ (\A p \in place_ids : pre_matrix[t][p] = 0) => is_transition_enabled(m, t)

C11_Witness ==
    /\ AfterExplicit
    /\ \E t \in transition_ids : \E m \in reachable :
          /\ \E p \in place_ids : m[p] >= 1 /\ pre_matrix[t][p] > m[p]
          /\ ~is_transition_enabled(m, t)
    /\ \E t \in transition_ids : \E m \in reachable :
          /\ \E p \in place_ids : pre_matrix[t][p] > 0
          /\ is_transition_enabled(m, t)
    /\ \E t \in transition_ids : \A p \in place_ids : pre_matrix[t][p] = 0

\* C12: for an enabled transition fire_transition(m, t) is the marking
\* m - pre[t] + post[t]; the BFS step that calls it leaves the markings it was
\* given in the set as they were, and leaves the net unchanged.
C12_FireIsMinusPrePlusPost ==
    /\ [](\A m \in Markings : \A t \in transition_ids :
            is_transition_enabled(m, t) => fire_transition(m, t) = Fire(m, t))
    /\ [][pc = "explicit" => (reachable \subseteq reachable' /\ net' = net)]_vars

C12_Witness ==
    /\ pc = "explicit"
    /\ Cardinality(reachable) >= 3
    /\ \E m \in reachable : \E t \in transition_ids :
          /\ is_transition_enabled(m, t)
          /\ \E p \in place_ids : pre_matrix[t][p] > 0
          /\ \E p \in place_ids : post_matrix[t][p] > 0
          /\ fire_transition(m, t) # m
          /\ fire_transition(m, t) \in reachable

\* C13: a structural defect of the PNML (an arc with an undeclared endpoint, an
\* arc joining two nodes of the same kind) makes parse_pnml fail, so that no
\* analysis step runs: main() is at its exit after the parse error.
C13_DefectAbortsBeforeAnalysis ==
    errors # {} => pc = "parse_error"

EmptyNet == place_ids = {} /\ transition_ids = {}

\* C14: on the empty net every analysis completes normally: main() never
\* aborts, the explicit set is {()}, deadlock detection reports () and
\* optimization over the empty weight vector returns ((), 0).
C14_EmptyNetCompletes ==
    EmptyNet =>
        /\ pc # "crashed"
        /\ AfterExplicit => reachable = {<< >>}
        /\ (pc = "optimize" /\ result.fn = "deadlock_detection")
              => (result.found /\ result.marking = << >>)
        /\ (pc = "done" /\ result.fn = "optimize_reachable_markings")
              => (result.found /\ result.marking = << >> /\ result.value = 0)

\* C15: on a net without transitions both engines return exactly {M0}, and
\* deadlock detection reports M0 as the deadlock.
C15_NoTransitionsOnlyInitial ==
    transition_ids = {} =>
        /\ AfterExplicit => reachable = {initial_marking}
        /\ AfterSymbolic => Enumerate(reach_bdd) = {initial_marking}
        /\ (pc = "optimize" /\ result.fn = "deadlock_detection")
              => (result.found /\ result.marking = initial_marking)

\* t has a self-loop on p: p is an input and an output of t, with weight 1.
SelfLoop(t, p) == pre_matrix[t][p] = 1 /\ post_matrix[t][p] = 1

\* The self-loop on p is all there is to t.
PureSelfLoop(t, p) ==
    /\ SelfLoop(t, p)
    /\ \A q \in place_ids \ {p} : pre_matrix[t][q] = 0 /\ post_matrix[t][q] = 0

\* C16: a transition t with a self-loop on p is enabled only at markings with a
\* token in p, firing it leaves p as it was and, when the self-loop is all of
\* t, returns the same marking; the symbolic relation of t relates only
\* assignments with p marked before and after, and for a pure self-loop it
\* relates exactly every assignment with p marked to itself.
C16_SelfLoop ==
    \A t \in transition_ids : \A p \in place_ids :
        /\ SelfLoop(t, p) =>
              /\ \A m \in Markings :
                    is_transition_enabled(m, t) =>
                        (m[p] >= 1 /\ fire_transition(m, t)[p] = m[p])
              /\ \A xx \in transition_relation_of(t) : xx[1][p] /\ xx[2][p]
        /\ PureSelfLoop(t, p) =>
              /\ \A m \in Markings :
                    /\ is_transition_enabled(m, t) <=> m[p] >= 1
                    /\ is_transition_enabled(m, t) => fire_transition(m, t) = m
              /\ transition_relation_of(t) =
                    {<<x, x>> : x \in {y \in Assignments : y[p]}}

C16_Witness ==
    /\ AfterSymbolic
    /\ NumPlaces >= 2
    /\ \E t \in transition_ids : \E p \in place_ids :
          /\ PureSelfLoop(t, p)
          /\ initial_marking[p] = 1
          /\ is_transition_enabled(initial_marking, t)
          /\ <<ToAssignment(initial_marking), ToAssignment(initial_marking)>>
                \in transition_relation_of(t)

\* C17 compares two runs of symbolic_reachability_bdd on one net; it is
\* recorded without a formula.

\* C18: after parse_pnml has returned, no step of any analysis (the BFS with
\* its calls of is_transition_enabled and fire_transition, the BDD fixpoint,
\* deadlock detection, optimization) changes place_ids, transition_ids,
\* pre_matrix, post_matrix or initial_marking.
C18_NetIsReadOnly ==
    [][/\ place_ids' = place_ids
       /\ transition_ids' = transition_ids
       /\ pre_matrix' = pre_matrix
       /\ post_matrix' = post_matrix
       /\ initial_marking' = initial_marking]_vars

C18_Witness ==
    /\ pc = "done"
    /\ result.fn = "optimize_reachable_markings"
    /\ transition_ids # {}
    /\ Cardinality(reachable) >= 3
    /\ Cardinality(reach_bdd) >= 3

\* The markings the reachability oracle accepts on the returned BDD.
OracleAccepted == {m \in Cube : is_marking_reachable_bdd(reach_bdd, m)}

\* C19: deadlock detection reports that no deadlock exists only when rejected
\* candidates have been cut away until the ILP is infeasible: no solution of
\* the dead-marking constraints that the oracle accepts is left.
C19_NoDeadlockOnlyWhenCutsExhausted ==
    (pc = "optimize" /\ result.fn = "deadlock_detection" /\ ~result.found)
        => DeadlockFeasible \cap OracleAccepted = {}

\* C20: optimization ends either with a marking the oracle accepts whose value
\* is the maximum over all accepted markings, or, every candidate having been
\* rejected and cut away, with no accepted marking left.
C20_OptimumOrNoneAccepted ==
    (pc = "done" /\ result.fn = "optimize_reachable_markings")
        => IF result.found
             THEN /\ result.marking \in OracleAccepted
                  /\ \A m \in OracleAccepted :
                        Objective(result.weights, m) <= result.value
             ELSE OracleAccepted = {}

\* C21: the feasible region of the deadlock ILP is exactly the set of dead
\* markings of {0,1}^P, also when a transition has no pre-place.
C21_FeasibleIffDead ==
    \A m \in Cube : m \in DeadlockFeasible <=> is_dead_marking(m)

\* C22: a marking returned by deadlock detection is in the reachable set R(N)
\* and is dead: no transition is enabled at it.
C22_ReturnedDeadlockIsGenuine ==
    (pc = "optimize" /\ result.fn = "deadlock_detection" /\ result.found)
        => /\ result.marking \in RN
           /\ is_dead_marking(result.marking)

\* Every arc weight of the net is 0 or 1.
UnitWeights ==
    \A t \in transition_ids : \A p \in place_ids :
        pre_matrix[t][p] <= 1 /\ post_matrix[t][p] <= 1

\* The pairs (m, m') of 0/1 markings with every pre-place of t marked in m, no
\* post-only place of t marked in m and m' = m - pre[t] + post[t], as pairs of
\* assignments.
EnablingAndUpdate(t) ==
    {<<ToAssignment(mm[1]), ToAssignment(mm[2])>> :
        mm \in {nn \in Cube \X Cube :
                  /\ \A p \in place_ids : pre_matrix[t][p] = 1 => nn[1][p] = 1
                  /\ \A p \in place_ids :
                        (pre_matrix[t][p] = 0 /\ post_matrix[t][p] = 1) => nn[1][p] = 0
                  /\ \A p \in place_ids :
                        nn[2][p] = nn[1][p] - pre_matrix[t][p] + post_matrix[t][p]}}

\* C23: with 0/1 arc weights the relation the fixpoint loop works with holds,
\* for each t, the pair (m, m') of 0/1 markings exactly when every pre-place of
\* t is marked in m, no post-only place of t is marked in m and
\* m' = m - pre[t] + post[t]; the global relation is the union over the
\* transitions, empty when there are none.
C23_RelationIsEnablingAndUpdate ==
    (pc = "symbolic" /\ UnitWeights) =>
        /\ \A t \in transition_ids : transition_relation_of(t) = EnablingAndUpdate(t)
        /\ build_transition_relation_bdd
              = UNION {EnablingAndUpdate(t) : t \in transition_ids}
        /\ transition_ids = {} => build_transition_relation_bdd = {}

C23_Witness ==
    /\ pc = "symbolic"
    /\ iteration >= 1
    /\ UnitWeights
    /\ NumTrans >= 2
    /\ Cardinality(build_transition_relation_bdd) >= 2
    /\ \E t \in transition_ids :
          /\ \E p \in place_ids : pre_matrix[t][p] = 1 /\ post_matrix[t][p] = 0
          /\ \E p \in place_ids : pre_matrix[t][p] = 0 /\ post_matrix[t][p] = 1
          /\ \E xx \in transition_relation_of(t) : xx[1] \in reach_bdd

\* The assignments the built relation relates some assignment of S to.
RelationImage(S) ==
    {xn \in Assignments :
        \E x \in S : \E t \in transition_ids : <<x, xn>> \in transition_relation_of(t)}

\* C24: whenever the fixpoint loop has terminated, the image of the reach set
\* under the built relation is contained in the reach set: neither exit ends
\* the loop while a successor is still missing.
C24_ExitOnlyAtFixpoint ==
    AfterSymbolic => RelationImage(reach_bdd) \subseteq reach_bdd

C24_Witness ==
    /\ AfterSymbolic
    /\ iteration >= 3
    /\ Cardinality(reach_bdd) >= 3
    /\ RelationImage(reach_bdd) # {}
    /\ RelationImage(reach_bdd) \subseteq reach_bdd

\* C29: in the fixpoint loop no iteration removes an assignment from the reach
\* set, every iteration that does not exit adds at least one, and the loop
\* runs at most 2^P iterations.
C29_StrictGrowthBoundsIterations ==
    /\ [][pc = "symbolic" =>
            /\ reach_bdd \subseteq reach_bdd'
            /\ pc' = "symbolic" => reach_bdd' # reach_bdd]_vars
    /\ [](iteration <= Pow2(NumPlaces))

C29_Witness ==
    /\ AfterSymbolic
    /\ NumPlaces >= 2
    /\ iteration >= 3
    /\ Cardinality(reach_bdd) = iteration

\* C25: a transition with a pre-arc of weight w > 1 from p is enabled at m only
\* if m[p] >= w; at a 0/1 marking it is therefore not enabled in the explicit
\* engine and the symbolic relation built for it relates the marking to nothing.
C25_WeightsRespectedByBothEngines ==
    \A t \in transition_ids : \A p \in place_ids :
        pre_matrix[t][p] > 1 =>
            /\ \A m \in Markings :
                  is_transition_enabled(m, t) => m[p] >= pre_matrix[t][p]
            /\ \A m \in Cube :
                  /\ ~is_transition_enabled(m, t)
                  /\ \A xx \in transition_relation_of(t) : xx[1] # ToAssignment(m)

\* C27: a pair (m*, v*) returned by optimization is sound: m* is in R(N), v* is
\* the sum of c_p * m*[p], and no marking of R(N) has a larger objective value.
C27_ReturnedOptimumIsSound ==
    (pc = "done" /\ result.fn = "optimize_reachable_markings" /\ result.found)
        => /\ result.marking \in RN
           /\ result.value = Objective(result.weights, result.marking)
           /\ \A m \in RN : Objective(result.weights, m) <= result.value

\* C26: optimize_reachable_markings raises, returning no result and reaching no
\* ILP, exactly when the weight vector's length differs from the number of
\* places.
C26_LengthMismatchRaises ==
    (pc = "done" /\ result.fn = "optimize_reachable_markings")
        => /\ result.raised <=> Len(result.weights) # NumPlaces
           /\ result.raised => (~result.found /\ result.marking = NoMarking)

C26_Witness ==
    /\ pc = "done"
    /\ result.fn = "optimize_reachable_markings"
    /\ NumPlaces >= 2
    /\ Len(result.weights) = NumPlaces + 1
    /\ result.raised
    /\ ~result.found

\* C28: an ILP client returns a marking only when the oracle has confirmed it
\* on a BDD; without the BDD backend both clients return no result, although
\* explicit reachability has run to completion.
C28_OnlyConfirmedCandidates ==
    /\ result.found =>
          (BDD_AVAILABLE /\ is_marking_reachable_bdd(reach_bdd, result.marking))
    /\ (~BDD_AVAILABLE /\ pc \in {"optimize", "done"}) =>
          /\ ~result.found
          /\ queue = << >>
          /\ initial_marking \in reachable

C28_Witness ==
    /\ ~BDD_AVAILABLE
    /\ ILP_AVAILABLE
    /\ pc = "done"
    /\ result.fn = "optimize_reachable_markings"
    /\ ~result.found
    /\ Cardinality(reachable) >= 3
    /\ reach_bdd = {}

=============================================================================
